---- MODULE Spec2Model ----
(***************************************************************************)
(* Model of SemanticMergeRust (src/src/main.rs): the request loop of main, *)
(* read_file, save_file, convert_point and the tree walk walk_tree with    *)
(* its name extraction.                                                    *)
(*                                                                         *)
(* Rust strings are modelled as sequences of one-character strings, so     *)
(* that contains, replace and split_whitespace are computed character by   *)
(* character as the standard library computes them.                        *)
(***************************************************************************)
EXTENDS Integers, Sequences, FiniteSets, TLC

VARIABLES
    pc,           \* position of the program / of the function under check
    args,         \* env::args() (main.rs:73)
    input_path,   \* main.rs:82
    output_path,  \* main.rs:83
    console,      \* lines written to the log file output.txt (main.rs:74)
    stdout,       \* responses written to standard output (main.rs:200,203)
    files,        \* the file system: path -> file, read by read_file and
                  \* written by save_file (output.txt, the log, is console)
    lines,        \* what the read_line calls of the last iteration returned
    nreq,         \* iterations that went past the sentinel test (main.rs:87)
    eof,          \* standard input is exhausted
    tree,         \* raw node handed to walk_tree (SpecWalk)
    result,       \* what walk_tree returned (SpecWalk)
    kind,         \* node.kind() (SpecName)
    contents,     \* node.utf8_text(..) (SpecName)
    name,         \* outcome of the name extraction (SpecName)
    build,        \* how the program was compiled: "debug" or "release"
    language      \* parser.set_language succeeds (main.rs:104): the
                  \* grammar and the tree_sitter library are compatible

vars == <<pc, args, input_path, output_path, console, stdout, files, lines,
          nreq, eof, tree, result, kind, contents, name, build, language>>

driverVars == <<args, input_path, output_path, console, stdout, files, lines,
                nreq, eof>>
walkVars == <<tree, result>>
nameVars == <<kind, contents, name>>

----------------------------------------------------------------------------
(* Bounds of the model.                                                    *)

\* longest text enumerated exhaustively for the name extraction
MaxLen == 3
\* largest raw tree (number of nodes) enumerated for walk_tree
MaxNodes == 4
\* requests (loop iterations past the sentinel test) in one session
MaxRequests == 2

----------------------------------------------------------------------------
(* Strings.                                                                *)

S_identifier == <<"i","d","e","n","t","i","f","i","e","r">>
S_item == <<"i","t","e","m">>
S_fn == <<"f","n">>
S_struct == <<"s","t","r","u","c","t">>
S_enum == <<"e","n","u","m">>
S_pub == <<"p","u","b">>
S_end == <<"e","n","d">>
S_space == <<" ">>

\* char::is_whitespace: the characters of the Unicode property White_Space.
\* A character that has no escape in a TLA+ string is written as its code
\* point.
is_whitespace(c) ==
    c \in {"\t", "\n", "U+000B", "\f", "\r", " ", "U+0085", "U+00A0", "U+1680",
           "U+2000", "U+2001", "U+2002", "U+2003", "U+2004", "U+2005",
           "U+2006", "U+2007", "U+2008", "U+2009", "U+200A", "U+2028",
           "U+2029", "U+202F", "U+205F", "U+3000"}

\* s[i..] starts with pat
starts_with_at(s, i, pat) ==
    /\ i + Len(pat) - 1 <= Len(s)
    /\ \A k \in 1..Len(pat) : s[i + k - 1] = pat[k]

\* str::contains(pat)
str_contains(s, pat) == \E i \in 1..(Len(s) + 1) : starts_with_at(s, i, pat)

\* str::replace(from, to): the non-overlapping matches, leftmost first
RECURSIVE replace_from(_, _, _, _)
replace_from(s, i, from, to) ==
    IF i > Len(s) THEN <<>>
    ELSE IF starts_with_at(s, i, from)
         THEN to \o replace_from(s, i + Len(from), from, to)
         ELSE <<s[i]>> \o replace_from(s, i + 1, from, to)

str_replace(s, from, to) == replace_from(s, 1, from, to)

\* index of the first character of s at or after i that is (not) whitespace,
\* Len(s) + 1 when there is none
RECURSIVE skip_while(_, _, _)
skip_while(s, i, ws) ==
    IF i > Len(s) THEN i
    ELSE IF is_whitespace(s[i]) = ws THEN skip_while(s, i + 1, ws)
    ELSE i

\* str::split_whitespace().next(): [some |-> FALSE] is None
split_whitespace_next(s) ==
    LET b == skip_while(s, 1, TRUE)
        e == skip_while(s, b, FALSE)
    IN  IF b > Len(s) THEN [some |-> FALSE, token |-> <<>>]
        ELSE [some |-> TRUE, token |-> SubSeq(s, b, e - 1)]

----------------------------------------------------------------------------
(* Name extraction, walk_tree lines 127-150.                                *)

\* the chain of replace calls, lines 133-145
strip_chain(text) ==
    LET r1 == str_replace(text, <<"{">>, S_space)
        r2 == str_replace(r1, <<"}">>, S_space)
        r3 == str_replace(r2, <<"(">>, S_space)
        r4 == str_replace(r3, <<")">>, S_space)
        r5 == str_replace(r4, <<":">>, S_space)
        r6 == str_replace(r5, <<"#">>, S_space)
        r7 == str_replace(r6, <<"[">>, S_space)
        r8 == str_replace(r7, <<"]">>, S_space)
        r9 == str_replace(r8, S_fn, S_space)
        r10 == str_replace(r9, S_struct, S_space)
        r11 == str_replace(r10, S_enum, S_space)
    IN  str_replace(r11, S_pub, S_space)

\* line 132 without the test for "item"
is_declaration_kind_identifier_only(k) == str_contains(k, S_identifier)

\* line 132
is_declaration_kind(k) == str_contains(k, S_identifier) \/ str_contains(k, S_item)

\* lines 132-150: [ok |-> FALSE] is the Err of line 147
extract_name(k, text) ==
    IF is_declaration_kind(k)
    THEN LET t == split_whitespace_next(strip_chain(text))
         IN  IF t.some THEN [ok |-> TRUE, name |-> t.token]
             ELSE [ok |-> FALSE, name |-> <<>>]
    ELSE [ok |-> TRUE, name |-> k]

----------------------------------------------------------------------------
(* convert_point and walk_tree.                                            *)
(*                                                                         *)
(* A raw node (tree_sitter::Node) is a record                              *)
(*   [kind, text, start_position, end_position, start_byte, end_byte,      *)
(*    children]                                                            *)
(* where text is what utf8_text(..).unwrap_or("") gives (line 128-131) and *)
(* children are the named children in source order (named_child(i)).       *)

I32_MAX == 2147483647

\* `x as i32` for 0 <= x < 2^32
as_i32(x) == IF x > I32_MAX THEN (x - I32_MAX - 1) - I32_MAX - 1 ELSE x

Builds == {"debug", "release"}

\* lines 220-222: the addition of two i32 overflows at I32_MAX, where the
\* debug build panics and the release build wraps
convert_point(p) ==
    LET row == as_i32(p.row)
        column == as_i32(p.column)
    IN  IF row < I32_MAX THEN [panic |-> FALSE, point |-> <<row + 1, column>>]
        ELSE IF build = "debug" THEN [panic |-> TRUE, point |-> <<row, column>>]
        ELSE [panic |-> FALSE, point |-> <<-I32_MAX - 1, column>>]

\* lines 158-161 and 179-182
location_span(node) ==
    LET s == convert_point(node.start_position)
        e == convert_point(node.end_position)
    IN  [panic |-> s.panic \/ e.panic,
         span |-> [start |-> s.point, end |-> e.point]]

\* lines 162-164 and 183-185
char_span(node) == <<as_i32(node.start_byte), as_i32(node.end_byte)>>

NoNode == [variant |-> "None"]
\* the Err of line 147
Failed == [ok |-> FALSE, panic |-> FALSE, node |-> NoNode]
\* a panic inside walk_tree (convert_point)
Panic == [ok |-> FALSE, panic |-> TRUE, node |-> NoNode]

\* lines 155-165
make_terminal(node, nm) ==
    [variant |-> "Terminal",
     item_type |-> node.kind,
     name |-> nm,
     location_span |-> location_span(node).span,
     span |-> char_span(node)]

\* lines 176-188
make_container(node, nm, children) ==
    [variant |-> "Container",
     item_type |-> node.kind,
     name |-> nm,
     location_span |-> location_span(node).span,
     header_span |-> char_span(node),
     footer_span |-> <<0, -1>>,
     children |-> children]

\* lines 171-173 with a loop that ends at the first child that failed
collect_children_until_error(rs) ==
    LET bad == {i \in 1..Len(rs) : ~rs[i].ok}
        n == IF bad = {} THEN Len(rs)
             ELSE (CHOOSE i \in bad : \A j \in bad : i <= j) - 1
    IN  [i \in 1..n |-> rs[i].node]

\* lines 171-173: the results of the children that are Ok, in order
collect_children(rs) ==
    LET kept == SelectSeq(rs, LAMBDA r : r.ok)
    IN  [i \in 1..Len(kept) |-> kept[i].node]

\* lines 122-190
RECURSIVE walk_tree(_)
walk_tree(node) ==
    LET nm == extract_name(node.kind, node.text)
        child_count == Len(node.children)
    IN  IF ~nm.ok THEN Failed
        ELSE IF child_count = 0
        THEN IF location_span(node).panic THEN Panic
             ELSE [ok |-> TRUE, panic |-> FALSE,
                   node |-> make_terminal(node, nm.name)]
        ELSE LET rs == [i \in 1..child_count |-> walk_tree(node.children[i])]
             IN  IF \E i \in 1..child_count : rs[i].panic THEN Panic
                 ELSE IF location_span(node).panic THEN Panic
                 ELSE [ok |-> TRUE, panic |-> FALSE,
                       node |-> make_container(node, nm.name,
                                               collect_children(rs))]

----------------------------------------------------------------------------
(* Inputs of the name extraction.                                          *)

\* characters of the exhaustively enumerated texts
TextAlphabet == {"f", "n", "a", "(", "#", " ", "\r"}

RECURSIVE SeqsOfLen(_, _)
SeqsOfLen(S, n) ==
    IF n = 0 THEN {<<>>}
    ELSE {<<c>> \o t : c \in S, t \in SeqsOfLen(S, n - 1)}

SeqsUpTo(S, n) == UNION {SeqsOfLen(S, k) : k \in 0..n}

T_fn_foo == <<"f","n"," ","f","o","o","(","x",":"," ","i","3","2",")">>
T_hashes == <<"#","#">>
T_pub_struct == <<"p","u","b"," ","s","t","r","u","c","t"," ","S","{","}">>
T_enum == <<"e","n","u","m"," ","E"," ","{","A","}">>
T_structfn == <<"s","t","r","u","c","t","f","n">>
T_attr == <<"#","[","a","]">>
T_glued == <<"a","(","b">>
T_pubx == <<"e","n","u","m","x","p","u","b","y">>
T_tab == <<"\t","\n","x","\n">>
T_crlf == <<"A","\r","\n","{">>
T_nbsp == <<"U+00A0","x","\f","y">>

ExampleTexts == {T_fn_foo, T_hashes, T_pub_struct, T_enum, T_structfn, T_attr,
                 T_glued, T_pubx, T_tab, T_crlf, T_nbsp}

Texts == SeqsUpTo(TextAlphabet, MaxLen) \cup ExampleTexts

K_function_item == <<"f","u","n","c","t","i","o","n","_">> \o S_item
K_type_identifier == <<"t","y","p","e","_">> \o S_identifier
K_block == <<"b","l","o","c","k">>
K_source_file == <<"s","o","u","r","c","e","_","f","i","l","e">>
K_ident == <<"i","d","e","n","t">>

Kinds == {S_identifier, S_item, K_function_item, K_type_identifier, K_block,
          K_source_file, K_ident}

NoName == [ok |-> FALSE, name |-> <<>>]

InitName ==
    /\ pc = "name_init"
    /\ kind \in Kinds
    /\ contents \in Texts
    /\ name = NoName
    /\ args = <<>> /\ input_path = <<>> /\ output_path = <<>>
    /\ console = <<>> /\ stdout = <<>> /\ files = <<>> /\ lines = <<>>
    /\ nreq = 0 /\ eof = FALSE
    /\ tree = <<>> /\ result = NoName
    /\ build = "release"
    /\ language = TRUE

\* walk_tree lines 127-150 applied to (kind, contents)
ExtractName ==
    /\ pc = "name_init"
    /\ name' = extract_name(kind, contents)
    /\ pc' = "name_done"
    /\ UNCHANGED <<kind, contents, build, language>>
    /\ UNCHANGED driverVars
    /\ UNCHANGED walkVars

NextName == ExtractName

SpecName == InitName /\ [][NextName]_vars

----------------------------------------------------------------------------
(* C7: name extraction.                                                    *)

StrippedChars == {"{", "}", "(", ")", ":", "#", "[", "]"}
StrippedWords == {S_fn, S_struct, S_enum, S_pub}

\* character i of text is whitespace, a stripped character, or lies inside
\* an occurrence of a stripped word
IsSeparator(text, i) ==
    \/ is_whitespace(text[i])
    \/ text[i] \in StrippedChars
    \/ \E w \in StrippedWords : \E j \in 1..i :
           i < j + Len(w) /\ starts_with_at(text, j, w)

\* the first maximal run of characters of text that are no separators
FirstRun(text) ==
    LET keep == {i \in 1..Len(text) : ~IsSeparator(text, i)}
    IN  IF keep = {} THEN NoName
        ELSE LET b == CHOOSE i \in keep : \A j \in keep : i <= j
                 stop == {i \in (b + 1)..Len(text) : IsSeparator(text, i)}
                 e == IF stop = {} THEN Len(text) + 1
                      ELSE CHOOSE i \in stop : \A j \in stop : i <= j
             IN  [ok |-> TRUE, name |-> SubSeq(text, b, e - 1)]

\* the text with the stripped characters and words deleted
removal_chain(text) ==
    LET r1 == str_replace(text, <<"{">>, <<>>)
        r2 == str_replace(r1, <<"}">>, <<>>)
        r3 == str_replace(r2, <<"(">>, <<>>)
        r4 == str_replace(r3, <<")">>, <<>>)
        r5 == str_replace(r4, <<":">>, <<>>)
        r6 == str_replace(r5, <<"#">>, <<>>)
        r7 == str_replace(r6, <<"[">>, <<>>)
        r8 == str_replace(r7, <<"]">>, <<>>)
        r9 == str_replace(r8, S_fn, <<>>)
        r10 == str_replace(r9, S_struct, <<>>)
        r11 == str_replace(r10, S_enum, <<>>)
    IN  str_replace(r11, S_pub, <<>>)

FirstTokenAfterRemoval(text) ==
    LET t == split_whitespace_next(removal_chain(text))
    IN  IF t.some THEN [ok |-> TRUE, name |-> t.token] ELSE NoName

S_foo == <<"f","o","o">>

\* C7 as stated: for a kind containing "identifier" or "item" the name is
\* the first whitespace-separated token of the text with the characters
\* { } ( ) : # [ ] and the substrings fn, struct, enum, pub removed, failing
\* when no token is left; for any other kind it is the kind label.
\* "identifier" with "fn foo(x: i32)" gives "foo" and with "##" fails.
C7_NameAfterRemoval ==
    pc = "name_done" =>
        /\ IF str_contains(kind, S_identifier) \/ str_contains(kind, S_item)
           THEN name = FirstTokenAfterRemoval(contents)
           ELSE name = [ok |-> TRUE, name |-> kind]
        /\ (kind = S_identifier /\ contents = T_fn_foo)
               => name = [ok |-> TRUE, name |-> S_foo]
        /\ (kind = S_identifier /\ contents = T_hashes) => name = NoName

\* C7 amended: for a kind containing "identifier" or "item" the name is the
\* first maximal run of characters of the text that are neither whitespace,
\* nor one of { } ( ) : # [ ], nor part of an occurrence of fn, struct, enum
\* or pub (each is replaced by a space, so it separates tokens), failing
\* when there is no such character; for any other kind the name is the kind
\* label and the extraction succeeds.  "identifier" with "fn foo(x: i32)"
\* gives "foo" and with "##" fails.
C7_NameIsFirstRun ==
    pc = "name_done" =>
        /\ IF str_contains(kind, S_identifier) \/ str_contains(kind, S_item)
           THEN name = FirstRun(contents)
           ELSE name = [ok |-> TRUE, name |-> kind]
        /\ (kind = S_identifier /\ contents = T_fn_foo)
               => name = [ok |-> TRUE, name |-> S_foo]
        /\ (kind = S_identifier /\ contents = T_hashes) => name = NoName

\* a stripped character between two letters has separated them
C7_Witness ==
    /\ pc = "name_done"
    /\ kind = K_function_item
    /\ contents = T_glued
    /\ name = [ok |-> TRUE, name |-> <<"a">>]

----------------------------------------------------------------------------
(* Inputs of walk_tree: every raw tree of at most MaxNodes nodes, written  *)
(* in preorder as a depth per node and a (kind, text) label per node.      *)

\* bytes of source text per node of the enumerated trees
NodeWidth == 2
\* bytes per source line of the enumerated trees
LineWidth == 3

T_braces == <<"{", "}">>
T_fn_g == <<"f","n"," ","g","(",")">>

NodeLabels ==
    {[kind |-> K_block, text |-> T_braces],
     [kind |-> S_identifier, text |-> S_foo],
     [kind |-> S_identifier, text |-> T_hashes],
     [kind |-> K_function_item, text |-> T_fn_g]}

\* preorder depth sequences of the ordered trees with n nodes
DepthSeqs(n) ==
    {d \in [1..n -> 0..(n - 1)] :
        /\ d[1] = 0
        /\ \A i \in 2..n : d[i] >= 1 /\ d[i] <= d[i - 1] + 1}

\* last node of the subtree of node i
RECURSIVE subtree_end(_, _, _)
subtree_end(d, i, j) ==
    IF j + 1 <= Len(d) /\ d[j + 1] > d[i] THEN subtree_end(d, i, j + 1) ELSE j

\* position of byte offset b in a text of lines of LineWidth bytes
point_of(b) == [row |-> b \div LineWidth, column |-> b % LineWidth]

RECURSIVE build_node(_, _, _)
\* the children of node i among the nodes j..last
RECURSIVE build_children(_, _, _, _, _)
build_children(d, l, i, j, last) ==
    IF j > last THEN <<>>
    ELSE IF d[j] = d[i] + 1
         THEN <<build_node(d, l, j)>> \o build_children(d, l, i, j + 1, last)
         ELSE build_children(d, l, i, j + 1, last)

build_node(d, l, i) ==
    LET last == subtree_end(d, i, i)
        sb == NodeWidth * (i - 1)
        eb == NodeWidth * last
    IN  [kind |-> l[i].kind,
         text |-> l[i].text,
         start_position |-> point_of(sb),
         end_position |-> point_of(eb),
         start_byte |-> sb,
         end_byte |-> eb,
         children |-> build_children(d, l, i, i + 1, last)]

RawTrees ==
    UNION {{build_node(d, l, 1) : d \in DepthSeqs(n), l \in [1..n -> NodeLabels]} :
           n \in 1..MaxNodes}

InitWalk ==
    /\ pc = "walk_init"
    /\ tree \in RawTrees
    /\ result = Failed
    /\ build \in Builds
    /\ language = TRUE
    /\ kind = <<>> /\ contents = <<>> /\ name = NoName
    /\ args = <<>> /\ input_path = <<>> /\ output_path = <<>>
    /\ console = <<>> /\ stdout = <<>> /\ files = <<>> /\ lines = <<>>
    /\ nreq = 0 /\ eof = FALSE

\* one call of walk_tree, lines 122-190
WalkTree ==
    /\ pc = "walk_init"
    /\ result' = walk_tree(tree)
    /\ pc' = "walk_done"
    /\ UNCHANGED <<tree, build, language>>
    /\ UNCHANGED driverVars
    /\ UNCHANGED nameVars

NextWalk == WalkTree

SpecWalk == InitWalk /\ [][NextWalk]_vars

\* A tree of RawTrees moved to the end of a text of I32_MAX bytes, the
\* largest offset a number of the model can hold. A row that high leaves no
\* byte to any line before it but its newline, so the text is one of empty
\* lines and byte b is at row b, column 0.
RECURSIVE far_node(_, _)
far_node(node, shift) ==
    [kind |-> node.kind,
     text |-> node.text,
     start_position |-> [row |-> node.start_byte + shift, column |-> 0],
     end_position |-> [row |-> node.end_byte + shift, column |-> 0],
     start_byte |-> node.start_byte + shift,
     end_byte |-> node.end_byte + shift,
     children |-> [i \in 1..Len(node.children) |->
                      far_node(node.children[i], shift)]]

FarTrees == {far_node(t, I32_MAX - t.end_byte) : t \in RawTrees}

\* walk_tree on the trees of small and of large sources
InitWalkLarge ==
    /\ pc = "walk_init"
    /\ tree \in RawTrees \cup FarTrees
    /\ result = Failed
    /\ build \in Builds
    /\ language = TRUE
    /\ kind = <<>> /\ contents = <<>> /\ name = NoName
    /\ args = <<>> /\ input_path = <<>> /\ output_path = <<>>
    /\ console = <<>> /\ stdout = <<>> /\ files = <<>> /\ lines = <<>>
    /\ nreq = 0 /\ eof = FALSE

SpecWalkLarge == InitWalkLarge /\ [][NextWalk]_vars

----------------------------------------------------------------------------
(* C1, C2, C8: the outline against the raw tree.                           *)

RECURSIVE RawNodesOf(_)
RawNodesOf(r) ==
    {r} \cup UNION {RawNodesOf(r.children[i]) : i \in 1..Len(r.children)}

RECURSIVE OutNodesOf(_)
OutNodesOf(o) ==
    {o} \cup (IF o.variant = "Container"
              THEN UNION {OutNodesOf(o.children[i]) : i \in 1..Len(o.children)}
              ELSE {})

ByteRange(r) == <<r.start_byte, r.end_byte>>
OutRange(o) == IF o.variant = "Terminal" THEN o.span ELSE o.header_span

NameOk(r) ==
    ~(str_contains(r.kind, S_identifier) \/ str_contains(r.kind, S_item))
    \/ FirstRun(r.text).ok

\* byte ranges of the raw nodes none of whose ancestors, nor themselves,
\* fail the name extraction
RECURSIVE Surviving(_)
Surviving(r) ==
    IF ~NameOk(r) THEN {}
    ELSE {ByteRange(r)} \cup
         UNION {Surviving(r.children[i]) : i \in 1..Len(r.children)}

RawOf(o) == CHOOSE r \in RawNodesOf(tree) : ByteRange(r) = OutRange(o)

SeqMap(Op(_), q) == [i \in 1..Len(q) |-> Op(q[i])]

\* C1: a node is normalized successfully exactly when its own name
\* extraction succeeds, whatever happens below it; the children of every
\* Container are, in source order, the named children of its raw node whose
\* normalization succeeded; and the outline holds exactly the raw nodes that
\* have no failing node on their path from the root.
C1_ChildrenAreSurvivors ==
    pc = "walk_done" =>
        /\ result.ok <=> NameOk(tree)
        /\ result.ok =>
            /\ {OutRange(o) : o \in OutNodesOf(result.node)} = Surviving(tree)
            /\ \A o \in OutNodesOf(result.node) :
                 o.variant = "Container" =>
                    SeqMap(OutRange, o.children)
                      = SeqMap(ByteRange, SelectSeq(RawOf(o).children, NameOk))

\* a Container that lost its first child, with that child's subtree, and
\* kept the sibling after it
C1_Witness ==
    /\ pc = "walk_done"
    /\ result.ok
    /\ Len(tree.children) = 2
    /\ ~NameOk(tree.children[1])
    /\ Len(tree.children[1].children) = 1
    /\ NameOk(tree.children[1].children[1])
    /\ Len(result.node.children) = 1
    /\ OutRange(result.node.children[1]) = ByteRange(tree.children[2])

\* C2: below the root, every Container of the outline has at least one
\* child.
C2_NoEmptyContainer ==
    (pc = "walk_done" /\ result.ok /\ result.node.variant = "Container") =>
        \A i \in 1..Len(result.node.children) :
            \A o \in OutNodesOf(result.node.children[i]) :
                o.variant = "Container" => Len(o.children) >= 1

\* out, a number of the outline, is raw + 1: no i32 is when raw is I32_MAX
IsNextRow(out, raw) == raw < I32_MAX /\ out = raw + 1

\* C8: a normalized node is a Terminal exactly when its raw node has no
\* named child; a Terminal has no children field, its location span is
\* (row + 1, column) of the raw start and end positions and its span is
\* (start byte, end byte) with start <= end.
C8_TerminalIffLeaf ==
    (pc = "walk_done" /\ result.ok) =>
        \A o \in OutNodesOf(result.node) :
            \E r \in RawNodesOf(tree) :
                /\ ByteRange(r) = OutRange(o)
                /\ o.item_type = r.kind
                /\ (o.variant = "Terminal") <=> (Len(r.children) = 0)
                /\ (o.variant = "Container") <=> (Len(r.children) > 0)
                /\ o.variant = "Terminal" =>
                    /\ "children" \notin DOMAIN o
                    /\ IsNextRow(o.location_span.start[1], r.start_position.row)
                    /\ o.location_span.start[2] = r.start_position.column
                    /\ IsNextRow(o.location_span.end[1], r.end_position.row)
                    /\ o.location_span.end[2] = r.end_position.column
                    /\ o.span = <<r.start_byte, r.end_byte>>
                    /\ o.span[1] <= o.span[2]

----------------------------------------------------------------------------
(* The environment of main: the file system and the control stream.        *)

P_prog == <<"s","m">>
P_shell == <<"s","h","e","l","l">>
P_a == <<"a">>
P_z == <<"z">>
P_w == <<"w">>
P_u == <<"u">>
P_m == <<"m">>
P_o == <<"o">>
P_p == <<"p">>
P_x == <<"x">>

RootLabel == [kind |-> K_source_file, text |-> <<>>]
LabelBlock == [kind |-> K_block, text |-> T_braces]
LabelFoo == [kind |-> S_identifier, text |-> S_foo]
LabelHashes == [kind |-> S_identifier, text |-> T_hashes]
LabelFn == [kind |-> K_function_item, text |-> T_fn_g]
K_ERROR == <<"E","R","R","O","R">>

\* what the parser returns for the readable input files: the parser
\* (tree_sitter, line 103-105, 120) is outside the program, its trees are
\* inputs
TreeOfA ==
    build_node(<<0, 1, 2, 1, 2>>,
               <<RootLabel, LabelFn, LabelFoo, LabelBlock, LabelHashes>>, 1)

\* a node over the bytes sb..eb of the text, from position sp to ep
raw_node(k, text, sb, sp, eb, ep, children) ==
    [kind |-> k, text |-> text,
     start_position |-> sp, end_position |-> ep,
     start_byte |-> sb, end_byte |-> eb,
     children |-> children]

\* the root of a text of nbytes bytes that ends at position ep
root_node(nbytes, ep, children) ==
    raw_node(K_source_file, <<>>, 0, [row |-> 0, column |-> 0], nbytes, ep,
             children)

\* the lengths of the lines of a text of nbytes bytes whose lines are
\* LineWidth bytes long, the newline included (the text of build_node)
grid_line_lens(nbytes) ==
    [i \in 1..(nbytes \div LineWidth) |-> LineWidth - 1]
    \o (IF nbytes % LineWidth > 0 THEN <<nbytes % LineWidth>> ELSE <<>>)

\* The content of a file is one of
\*   [source |-> [line_lens, tree]]  a Rust source, known by the lengths of
\*                                   its lines and by its parse tree
\*   [text |-> t]                    the string t (save_file of a literal)
\*   [json |-> f]                    to_string_pretty of the SemanticFile f
SourceText(line_lens, t) == [source |-> [line_lens |-> line_lens, tree |-> t]]

\* the file system when the program starts: utf8 says whether read_to_string
\* succeeds on the file. a is a source with declarations, z has no byte,
\* w holds one newline, u is not UTF-8
Disk ==
    (P_a :> [utf8 |-> TRUE,
             content |-> SourceText(grid_line_lens(TreeOfA.end_byte), TreeOfA)])
    @@ (P_z :> [utf8 |-> TRUE,
                content |-> SourceText(<<>>,
                               root_node(0, [row |-> 0, column |-> 0], <<>>))])
    @@ (P_w :> [utf8 |-> TRUE,
                content |-> SourceText(<<0>>,
                               root_node(1, [row |-> 1, column |-> 0], <<>>))])
    @@ (P_u :> [utf8 |-> FALSE,
                content |-> SourceText(grid_line_lens(TreeOfA.end_byte), TreeOfA)])

\* File::create(path) succeeds (line 216)
Creatable(path) == path # P_x

\* what read_line appends for a line: its text and the newline
Line(text) == text \o <<"\n">>
\* what read_line appends at the end of the stream
EOF == <<>>

L_end == Line(S_end)
L_send == Line(<<"s">> \o S_end \o <<".","r","s">>)
L_blank == Line(<<>>)
L_a_padded == Line(<<"\t">> \o P_a \o <<"\r">>)
L_x_end == Line(P_x \o <<" ">> \o S_end)
L_p_padded == Line(<<" ">> \o P_p \o <<"U+00A0","t","\r">>)

FirstLines ==
    {Line(P_a), Line(P_z), Line(P_w), Line(P_u), Line(P_m),
     Line(P_o), L_a_padded, L_blank, L_end, L_send}
SecondLines == {L_blank, L_x_end}
ThirdLines == {Line(P_o), L_p_padded, Line(P_x), L_blank}

ArgsPool == {<<P_prog>>, <<P_prog, P_shell, P_o>>, <<P_prog, P_shell, P_x>>}

----------------------------------------------------------------------------
(* main, read_file, save_file.                                             *)

S_hello == <<"h","e","l","l","o">>
S_dum == <<"d","u","m">>
S_file == <<"f","i","l","e">>
S_OK == <<"O","K","\n">>
S_Done == <<"D","o","n","e",".",".",".">>

\* lines 208-213: the file is looked up in the file system as it is now;
\* the result of read_to_string is dropped, so a file that is not UTF-8
\* reads as the empty string
read_file(fs, path) ==
    IF path \in DOMAIN fs
    THEN [ok |-> TRUE,
          contents |-> IF fs[path].utf8 THEN fs[path].content
                       ELSE [text |-> <<>>]]
    ELSE [ok |-> FALSE, contents |-> [text |-> <<>>]]

\* lines 215-218: File::create truncates or creates the file, write stores
\* the string; [ok |-> FALSE] is the panic of the unwrap of line 216
save_file(fs, path, content) ==
    IF Creatable(path)
    THEN [ok |-> TRUE,
          files |-> (path :> [utf8 |-> TRUE, content |-> content]) @@ fs]
    ELSE [ok |-> FALSE, files |-> fs]

\* str::lines on a string: the lengths of its lines; a line ends at "\n",
\* a "\r" before it is no part of the line, and an empty rest after the last
\* "\n" is no line
RECURSIVE text_lines(_, _, _)
text_lines(t, i, len) ==
    IF i > Len(t) THEN (IF len = 0 THEN <<>> ELSE <<len>>)
    ELSE IF t[i] = "\n"
         THEN <<IF len > 0 /\ t[i - 1] = "\r" THEN len - 1 ELSE len>>
              \o text_lines(t, i + 1, 0)
         ELSE text_lines(t, i + 1, len + 1)

\* lines of the pretty-printed JSON of a node (line 197): one line per
\* brace, bracket, scalar field and array element, "[]" for an empty array
RECURSIVE json_node_lines(_)
RECURSIVE json_list_lines(_, _)
json_list_lines(children, i) ==
    IF i > Len(children) THEN 0
    ELSE json_node_lines(children[i]) + json_list_lines(children, i + 1)

json_array_lines(children) ==
    IF Len(children) = 0 THEN 1 ELSE 2 + json_list_lines(children, 1)

json_node_lines(n) ==
    IF n.variant = "Terminal" THEN 18
    ELSE 22 + json_array_lines(n.children)

json_file_lines(f) == 20 + json_array_lines(f.children)

\* lines 101-102: file_contents.lines().count() and the length of the last
\* line; the last line of a JSON document is "}"
line_stats(file_contents) ==
    IF "source" \in DOMAIN file_contents
    THEN LET ll == file_contents.source.line_lens
         IN  [count |-> Len(ll), last |-> IF Len(ll) = 0 THEN 0 ELSE ll[Len(ll)]]
    ELSE IF "text" \in DOMAIN file_contents
    THEN LET ll == text_lines(file_contents.text, 1, 0)
         IN  [count |-> Len(ll), last |-> IF Len(ll) = 0 THEN 0 ELSE ll[Len(ll)]]
    ELSE [count |-> json_file_lines(file_contents.json), last |-> 1]

\* digits of n written in decimal, with the sign
RECURSIVE nat_len(_)
nat_len(n) == IF n < 10 THEN 1 ELSE 1 + nat_len(n \div 10)

dec_len(n) ==
    IF n >= 0 THEN nat_len(n)
    ELSE IF n = -I32_MAX - 1 THEN 11
    ELSE 1 + nat_len(-n)

\* bytes of a string as a JSON string: the two quotes, two bytes for a
\* quote or a backslash, one byte for any other character (the kinds, names
\* and paths are tokens of ASCII text: they hold no whitespace and no
\* control character)
RECURSIVE json_string_bytes(_, _)
json_string_bytes(str, i) ==
    IF i > Len(str) THEN 2
    ELSE (IF str[i] \in {"\"", "\\"} THEN 2 ELSE 1)
         + json_string_bytes(str, i + 1)

\* The bytes of the pretty-printed JSON (line 197), newlines left out: the
\* sum over the lines of the indentation d and of the text of the line.
\* klen is the length of a key, comma is 1 when another field or element
\* follows.
\*   "key": "str"
json_field_bytes(d, klen, str, comma) ==
    d + klen + 4 + json_string_bytes(str, 1) + comma

\*   "key": [ a, b ] on four lines
json_pair_bytes(d, klen, pair, comma) ==
    (d + klen + 5) + (d + 2 + dec_len(pair[1]) + 1)
    + (d + 2 + dec_len(pair[2])) + (d + 1 + comma)

\*   "locationSpan": { "start": [..], "end": [..] }
json_location_bytes(d, span, comma) ==
    (d + 17) + json_pair_bytes(d + 2, 5, span.start, 1)
    + json_pair_bytes(d + 2, 3, span.end, 0) + (d + 1 + comma)

RECURSIVE json_node_bytes(_, _, _)
RECURSIVE json_list_bytes(_, _, _)
json_list_bytes(d, children, i) ==
    IF i > Len(children) THEN 0
    ELSE json_node_bytes(d, children[i], IF i < Len(children) THEN 1 ELSE 0)
         + json_list_bytes(d, children, i + 1)

\*   "children": [] or "children": [ node, .. ]
json_array_bytes(d, children, comma) ==
    IF Len(children) = 0 THEN d + 14 + comma
    ELSE (d + 13) + json_list_bytes(d + 2, children, 1) + (d + 1 + comma)

json_node_bytes(d, n, comma) ==
    (d + 1)
    + json_field_bytes(d + 2, 4, n.item_type, 1)
    + json_field_bytes(d + 2, 4, n.name, 1)
    + json_location_bytes(d + 2, n.location_span, 1)
    + (IF n.variant = "Terminal"
       THEN json_pair_bytes(d + 2, 4, n.span, 0)
       ELSE json_pair_bytes(d + 2, 10, n.header_span, 1)
            + json_pair_bytes(d + 2, 10, n.footer_span, 1)
            + json_array_bytes(d + 2, n.children, 0))
    + (d + 1 + comma)

\* the length in bytes of the document: its lines and the newlines between
\* them
json_file_bytes(f) ==
    1
    + json_field_bytes(2, 4, f.item_type, 1)
    + json_field_bytes(2, 4, f.name, 1)
    + json_location_bytes(2, f.location_span, 1)
    + json_pair_bytes(2, 10, f.footer_span, 1)
    + (2 + 25 + (IF f.parsing_errors_detected THEN 4 ELSE 5) + 1)
    + json_array_bytes(2, f.children, 1)
    + (2 + 16 + 4)
    + 1
    + (json_file_lines(f) - 1)

\* the position of the end of a text: the row counts the "\n" of the text,
\* the column the bytes after the last of them
RECURSIVE text_end_point(_, _, _, _)
text_end_point(t, i, row, col) ==
    IF i > Len(t) THEN [row |-> row, column |-> col]
    ELSE IF t[i] = "\n" THEN text_end_point(t, i + 1, row + 1, 0)
    ELSE text_end_point(t, i + 1, row, col + 1)

\* The tree tree_sitter returns for the contents of a file (lines 105,
\* 120). The grammar is no part of the program: for a source the tree comes
\* with the file; a text that the program wrote is no Rust source, and its
\* tree is taken to be a root over an error node that spans the text, over
\* the word as an identifier when the text is one word ("hello", "dum").
\* The text of the error node is left empty (it is read at line 132 only for
\* a kind that names a declaration).
ParsedTree(file_contents) ==
    IF "source" \in DOMAIN file_contents THEN file_contents.source.tree
    ELSE IF "text" \in DOMAIN file_contents
    THEN LET t == file_contents.text
             origin == [row |-> 0, column |-> 0]
             ep == text_end_point(t, 1, 0, 0)
         IN  IF t = <<>> THEN root_node(0, origin, <<>>)
             ELSE root_node(Len(t), ep,
                    <<raw_node(K_ERROR, <<>>, 0, origin, Len(t), ep,
                        <<raw_node(S_identifier, t, 0, origin, Len(t), ep,
                                   <<>>)>>)>>)
    ELSE LET nbytes == json_file_bytes(file_contents.json)
             origin == [row |-> 0, column |-> 0]
             ep == [row |-> json_file_lines(file_contents.json) - 1,
                    column |-> 1]
         IN  root_node(nbytes, ep,
                <<raw_node(K_ERROR, <<>>, 0, origin, nbytes, ep, <<>>)>>)

\* lines 103-105: parser.parse(&file_contents, None) returns None when the
\* parser has no language, that is when set_language (line 104, its result
\* is dropped) refused the grammar; t is the tree it returns otherwise
parse(language_set, t) ==
    IF language_set THEN [some |-> TRUE, tree |-> t]
    ELSE [some |-> FALSE, tree |-> t]

\* line 87 with a comparison of the whole path in place of contains
is_sentinel_exact(line) == split_whitespace_next(line).token = S_end

\* line 87
is_sentinel(line) == str_contains(line, S_end)

\* lines 92-94 without the clear of line 93
read_output_path_no_clear(old, l2, l3) == (old \o l2) \o l3

\* lines 92-94: output_path after the two read_line calls and the clear
\* between them
read_output_path(old, l2, l3) ==
    LET after_first == old \o l2
        cleared == <<>>
    IN  cleared \o l3

\* lines 192-196: the children of the root, or a panic: the one raised
\* inside walk_tree, the one of unwrap (the root failed) or the one of
\* unreachable!() (the root is a Terminal)
root_children(r) ==
    IF r.panic \/ ~r.ok THEN [ok |-> FALSE, children |-> <<>>]
    ELSE IF r.node.variant = "Terminal" THEN [ok |-> FALSE, children |-> <<>>]
    ELSE [ok |-> TRUE, children |-> r.node.children]

\* lines 107-118 with the children of line 193
file_node(path, stats, children) ==
    [item_type |-> S_file,
     name |-> path,
     location_span |->
        [start |-> <<1, 0>>,
         end |-> <<as_i32(stats.count), as_i32(stats.last)>>],
     footer_span |-> <<0, -1>>,
     parsing_errors_detected |-> FALSE,
     children |-> children,
     parsing_error |-> "None"]

\* the program's state as a record, for the steps of one iteration
Here == [pc |-> pc, input_path |-> input_path, output_path |-> output_path,
         console |-> console, stdout |-> stdout, files |-> files]

Panicked(st) == [st EXCEPT !.pc = "panicked"]

\* lines 99-204, for the paths in st
convert(st) ==
    LET fc == read_file(st.files, st.input_path)
        stats == line_stats(fc.contents)
    IN  IF fc.ok
        THEN IF stats.count = 0 THEN Panicked(st)                  \* line 102
             ELSE LET parsed == parse(language, ParsedTree(fc.contents))
                      rc == root_children(walk_tree(parsed.tree))
                  IN  IF ~parsed.some THEN Panicked(st)            \* line 105
                      ELSE IF ~rc.ok THEN Panicked(st)             \* 192, 195
                      ELSE LET doc == [json |-> file_node(st.input_path,
                                                          stats,
                                                          rc.children)]
                               sv == save_file(st.files, st.output_path, doc)
                           IN  IF ~sv.ok THEN Panicked(st)         \* line 198
                               ELSE [st EXCEPT
                                       !.files = sv.files,
                                       !.console = Append(@, doc),
                                       !.stdout = Append(@, S_OK)]
        ELSE LET sv == save_file(st.files, st.output_path, [text |-> S_dum])
             IN  IF ~sv.ok THEN Panicked(st)                       \* line 202
                 ELSE [st EXCEPT !.files = sv.files,
                                 !.stdout = Append(@, S_OK)]

\* lines 85-204 for an iteration that reads l1, l2, l3 and is not ended by
\* the sentinel
iteration(st, l1, l2, l3) ==
    LET s1 == [st EXCEPT !.input_path = l1,
                         !.output_path = read_output_path(@, l2, l3)]
        t1 == split_whitespace_next(s1.input_path)
        t2 == split_whitespace_next(s1.output_path)
    IN  IF ~t1.some THEN Panicked(s1)                               \* line 95
        ELSE IF ~t2.some
        THEN Panicked([s1 EXCEPT !.input_path = t1.token])         \* line 96
        ELSE convert([s1 EXCEPT
                        !.input_path = t1.token,
                        !.output_path = t2.token,
                        !.console = Append(@, [from |-> t1.token,
                                               to |-> t2.token])])

Init ==
    /\ pc = "start"
    /\ args \in ArgsPool
    /\ input_path = <<>>
    /\ output_path = <<>>
    /\ console = <<>>
    /\ stdout = <<>>
    /\ files = Disk
    /\ lines = <<>>
    /\ nreq = 0
    /\ eof = FALSE
    /\ tree = <<>> /\ result = Failed
    /\ build \in Builds
    /\ language \in BOOLEAN
    /\ kind = <<>> /\ contents = <<>> /\ name = NoName

\* lines 73-83; log_ok says whether File::create("output.txt") of line 74
\* succeeds
Startup(log_ok) ==
    /\ pc = "start"
    /\ IF ~log_ok
       THEN /\ pc' = "panicked"                                    \* line 74
            /\ UNCHANGED <<console, files>>
       ELSE /\ console' = Append(console, [args |-> args])
            /\ IF Len(args) < 3
               THEN pc' = "panicked" /\ files' = files             \* line 80
               ELSE LET sv == save_file(files, args[3], [text |-> S_hello])
                    IN  /\ pc' = IF sv.ok THEN "loop" ELSE "panicked"
                        /\ files' = sv.files
    /\ UNCHANGED <<args, build, language, input_path, output_path, stdout, lines, nreq,
                   eof>>
    /\ UNCHANGED walkVars
    /\ UNCHANGED nameVars

\* lines 85-90: the iteration that reads the sentinel
ReadSentinel(l1) ==
    /\ pc = "loop"
    /\ ~eof
    /\ is_sentinel(l1)
    /\ input_path' = l1
    /\ console' = Append(console, [text |-> S_Done])
    /\ pc' = "done"
    /\ lines' = <<l1>>
    /\ UNCHANGED <<args, build, language, output_path, stdout, files, nreq,
                   eof>>
    /\ UNCHANGED walkVars
    /\ UNCHANGED nameVars

\* lines 85-204: any other iteration; a read at the end of the stream
\* returns the empty string, and so does every read after it
Request(l1, l2, l3) ==
    /\ pc = "loop"
    /\ nreq < MaxRequests
    /\ ~is_sentinel(l1)
    /\ eof => l1 = EOF
    /\ l1 = EOF => l2 = EOF
    /\ l2 = EOF => l3 = EOF
    /\ LET st == iteration(Here, l1, l2, l3)
       IN  /\ pc' = st.pc
           /\ input_path' = st.input_path
           /\ output_path' = st.output_path
           /\ console' = st.console
           /\ stdout' = st.stdout
           /\ files' = st.files
    /\ lines' = <<l1, l2, l3>>
    /\ nreq' = nreq + 1
    /\ eof' = (l3 = EOF)
    /\ UNCHANGED <<args, build, language>>
    /\ UNCHANGED walkVars
    /\ UNCHANGED nameVars

Next ==
    \/ \E log_ok \in BOOLEAN : Startup(log_ok)
    \/ \E l1 \in FirstLines : ReadSentinel(l1)
    \/ \E l1 \in FirstLines \cup {EOF}, l2 \in SecondLines \cup {EOF},
          l3 \in ThirdLines \cup {EOF} : Request(l1, l2, l3)

Spec == Init /\ [][Next]_vars

----------------------------------------------------------------------------
(* C4-C6, C9, C10: the request loop.                                       *)

FirstToken(line) == split_whitespace_next(line).token
HasToken(line) == split_whitespace_next(line).some

\* the last iteration was a request: three lines, an input path and an
\* output path
LastIsRequest ==
    /\ nreq > 0
    /\ Len(lines) = 3
    /\ HasToken(lines[1])
    /\ HasToken(lines[3])

LastInput == FirstToken(lines[1])
LastOutput == FirstToken(lines[3])

IsOutline(file) == "json" \in DOMAIN file.content
OutlineAt(path) == files[path].content.json

\* what the last request read at its input path, taken from the file system
\* as the request left it
LastRead == read_file(files, LastInput)

\* C4: a request for an empty input file (readable, zero lines, a root with
\* no named child), with an output path that can be created, leaves an
\* OutlineFile with no children and parsingErrorsDetected = false at the
\* output path.
C4_EmptyFileGivesEmptyOutline ==
    (LastIsRequest /\ LastInput = P_z /\ Creatable(LastOutput))
    => /\ pc # "panicked"
       /\ LastOutput \in DOMAIN files
       /\ IsOutline(files[LastOutput])
       /\ OutlineAt(LastOutput).children = <<>>
       /\ OutlineAt(LastOutput).parsing_errors_detected = FALSE

\* C5: once a request has been processed, every request of the session so
\* far has been answered by one response, in order.
C5_OneResponsePerRequest ==
    LastIsRequest => stdout = [i \in 1..nreq |-> S_OK]

\* C6: a request that reaches save_file (its input is unreadable, or was
\* converted) with an output path that cannot be created does not end the
\* session: the loop goes on to the next request.
C6_WriteFailureIsLocal ==
    (LastIsRequest /\ ~Creatable(LastOutput)
       /\ (~LastRead.ok
           \/ /\ line_stats(LastRead.contents).count > 0
              /\ parse(language, ParsedTree(LastRead.contents)).some
              /\ root_children(walk_tree(ParsedTree(LastRead.contents))).ok))
    => pc = "loop"

\* the iteration that reads the sentinel ends the loop, reads no other
\* line and emits no response
SentinelEnds ==
    (pc = "loop" /\ pc' # "loop" /\ is_sentinel(lines'[1])) =>
        /\ pc' = "done"
        /\ Len(lines') = 1
        /\ stdout' = stdout
        /\ nreq' = nreq

\* that iteration writes nothing to any file: neither to a file of the file
\* system nor to output.txt, whose content is console
SentinelWritesNothing ==
    (pc = "loop" /\ pc' # "loop" /\ is_sentinel(lines'[1])) =>
        /\ files' = files
        /\ console' = console

\* that iteration writes the line "Done..." to output.txt (line 88) and
\* nothing to any other file
SentinelWritesDone ==
    (pc = "loop" /\ pc' # "loop" /\ is_sentinel(lines'[1])) =>
        /\ files' = files
        /\ console' = Append(console, [text |-> S_Done])

\* C9 as the claim states it: the loop ends normally exactly when the line
\* in the input-path position contains "end"; the iteration that reads it
\* reads no other line, writes no file and emits no response, and nothing
\* happens after it; at the end of the stream the program does not end
\* normally.
C9_SentinelWritesNoFile ==
    /\ [](lines # <<>> =>
            /\ (pc = "done") <=> str_contains(lines[1], S_end)
            /\ lines[1] = EOF => pc = "panicked")
    /\ [][SentinelEnds /\ SentinelWritesNothing]_vars
    /\ [][pc # "done"]_vars

\* C9, amended: as above, but the iteration that reads the sentinel writes
\* one line, "Done...", to the log file output.txt; it writes no other file.
C9_SentinelEndsSession ==
    /\ [](lines # <<>> =>
            /\ (pc = "done") <=> str_contains(lines[1], S_end)
            /\ lines[1] = EOF => pc = "panicked")
    /\ [][SentinelEnds /\ SentinelWritesDone]_vars
    /\ [][pc # "done"]_vars

\* the session was ended, after a request, by a file name that contains
\* "end"
C9_Witness ==
    /\ pc = "done"
    /\ nreq = 1
    /\ lines = <<L_send>>
    /\ Len(stdout) = 1
    /\ console[Len(console)] = [text |-> S_Done]

\* C10: every iteration past the sentinel test makes three reads; the input
\* path is the first token of the first line read and the output path the
\* first token of the third, whatever the second line and the previous
\* output path were; the request is logged and answered with these paths.
C10_ThreeLinesPerRequest ==
    (nreq > 0 /\ pc # "done") =>
        /\ Len(lines) = 3
        /\ LastIsRequest =>
            /\ input_path = FirstToken(lines[1])
            /\ output_path = FirstToken(lines[3])
            /\ \E i \in 1..Len(console) :
                  console[i] = [from |-> FirstToken(lines[1]),
                                to |-> FirstToken(lines[3])]
            /\ pc = "loop" =>
                  /\ output_path \in DOMAIN files
                  /\ IsOutline(files[output_path]) =>
                        OutlineAt(output_path).name = FirstToken(lines[1])

\* a second request whose discarded line holds a token, after a first
\* request that wrote to another output path
C10_Witness ==
    /\ nreq = 2
    /\ pc = "loop"
    /\ lines = <<L_a_padded, L_x_end, L_p_padded>>
    /\ input_path = P_a
    /\ output_path = P_p
    /\ P_o \in DOMAIN files
    /\ IsOutline(files[P_p])

====
